---- MODULE Spec2Model ----
(***************************************************************************)
(* Model of the ipv64 DNS-01 provider for Caddy.                           *)
(*                                                                         *)
(* Two provider variants live in the repository:                           *)
(*   "dns"  : DnsIPv64Provider (src/caddy-ipv64/dns_ipv64.go), whose       *)
(*            requests go through the free function doWithRetry and whose  *)
(*            DeleteRecords runs in a detached goroutine;                  *)
(*   "form" : Provider (src/dns_ipv64.go), whose requests go through the   *)
(*            method doWithRetryForm and whose DeleteRecords is            *)
(*            synchronous.                                                 *)
(* Spec (and FairSpec, with progress): one behaviour is one call of        *)
(* AppendRecords or DeleteRecords on one provider value, optionally        *)
(* provisioned first.  Durations are integers in milliseconds.  Records    *)
(* are the identifiers 1..n in input order.                                *)
(* PayloadSpec: the form values both providers build for one record from   *)
(* its name, the zone and the configured domain; strings are sequences of  *)
(* characters.                                                             *)
(* ModuleSpec: the life of one AcmeIPv64Module: Provision, ServeHTTP       *)
(* calls, the periodic and the detached update goroutines, Cleanup.        *)
(***************************************************************************)
EXTENDS Integers, Sequences, FiniteSets, TLC

\* ------------------------------------------------------------- bounds
\* Largest max_retries a configuration sets by hand.
MaxRetriesBound == 2
\* Largest number of records in one batch.
MaxRecs == 2

\* -------------------------------------------------- program constants
DnsDefaultMaxRetries == 4
DnsDefaultBackoffMillis == 300
DnsDefaultDeleteDelaySeconds == 20
FormDefaultMaxRetries == 5
FormDefaultBackoffMillis == 500
GraceSleepMillis == 2000
DnsDefaultResolvers ==
  <<"ns1.ipv64.de", "ns2.ipv64.de", "1.1.1.1", "1.0.0.1", "8.8.8.8",
    "8.8.4.4", "9.9.9.9", "149.112.112.112">>
FormDefaultResolvers ==
  <<"ns1.ipv64.net:53", "ns2.ipv64.net:53", "1.1.1.1:53", "8.8.8.8:53",
    "9.9.9.9:53">>

\* ----------------------------------------------------- input universe
Variants == {"dns", "form"}
Ops == {"append", "delete"}

\* Status codes the server may answer with: accepted 2xx, other 2xx, a 3xx,
\* a client error, rate limiting, and two server errors.
Statuses == {200, 201, 202, 204, 304, 400, 429, 500, 503}
Bodies == {"ok", "domain not found"}
\* Retry-After header values as character sequences; <<>> is "header absent".
RetryAfterValues == {<<>>, <<"2">>, <<"1", "0">>, <<"W", "e", "d">>}
\* Errors client.Do may return when no response arrives.
NetErrs ==
  {"dial tcp: connection refused", "i/o timeout", "no such host",
   "context deadline exceeded (Client.Timeout exceeded while awaiting headers)"}

\* Backoff values a configuration may hold before Provision (0 = unset).
RawBackoffs == {0, 250}
\* Delete delays a configuration may hold before Provision (0 = unset).
RawDeleteDelays == {0, 5}

Tokens == {"", "tok"}

NoErr == [kind |-> "nil"]
NoResp == [kind |-> "nil"]
NoRet == [kind |-> "none"]

Response(s, b, ra) == [kind |-> "resp", status |-> s, body |-> b, ra |-> ra]
\* Servers send Retry-After with 429 and 503 (RFC 7231, section 7.1.3).
Responses ==
  {Response(s, b, <<>>) : s \in Statuses, b \in Bodies}
    \cup {Response(s, b, ra) : s \in {429, 503}, b \in Bodies, ra \in RetryAfterValues}

NetError(e) == [kind |-> "net", msg |-> e]
\* ctx.Err() of the caller's context, and of the cleanup task's own context.
Canceled == [kind |-> "ctx", msg |-> "context canceled"]
DeadlineExceeded == [kind |-> "ctx", msg |-> "context deadline exceeded"]

VARIABLES
  variant,               \* which provider type the value is
  op,                    \* which operation the host calls
  Token,                 \* p.Token
  envToken,              \* the IPV64_API_TOKEN environment variable
  MaxRetries,            \* p.MaxRetries
  InitialBackoffMillis,  \* p.InitialBackoffMillis
  DeleteDelaySeconds,    \* p.DeleteDelaySeconds
  Resolver,              \* p.Resolver (p.Resolvers of Provider)
  recs,                  \* the input record list
  pc,                    \* position of the call (or of the cleanup goroutine)
  i,                     \* index of the record being processed
  attempt,               \* loop counter of the retry helper
  backoff,               \* current backoff of the retry helper
  lastErr,               \* doWithRetry's lastErr
  resp,                  \* the latest outcome of client.Do for this record
  hResp,                 \* response returned by the retry helper
  hErr,                  \* error returned by the retry helper
  sleep,                 \* duration of the latest wait
  woken,                 \* the parked select was woken by ctx.Done()
  sent,                  \* client.Do calls of this helper call
  sleeps,                \* waits started by this helper call
  tried,                 \* records the retry helper was called for
  created,               \* records applied so far (created / appended / deleted)
  ret,                   \* what the operation returned to the host
  cancelled,             \* the caller's context is done
  ctx2Done,              \* the cleanup task's own context is done
  waited,                \* how the cleanup task's delay select ended
  all500,                \* every client.Do of this helper call answered 500
  body,                  \* resp.Body of the record's latest response
  \* -- building the form payload of one record
  Domain,                \* p.Domain
  zone,                  \* the zone the host passes
  name,                  \* r.Name of the record
  payload,               \* the form values built for the record
  \* -- AcmeIPv64Module
  m,                     \* the module's fields
  mpc,                   \* position of Provision / the module's life cycle
  provRet,               \* what Provision returned
  periodic,              \* position of the periodic goroutine
  ticks,                 \* periodic updates started
  inflight,              \* update goroutines started by ServeHTTP, still running
  req,                   \* the ServeHTTP call in progress
  served,                \* ServeHTTP calls started
  updErr                 \* what the latest awaited ipv64Update returned

\* The state of one AppendRecords / DeleteRecords call.
callVars ==
  <<variant, op, Token, envToken, MaxRetries,
    InitialBackoffMillis, DeleteDelaySeconds, Resolver, recs, pc, i, attempt, backoff, lastErr, resp, hResp,
    hErr, sleep, woken, sent, sleeps, tried, created, ret, cancelled,
    ctx2Done, waited, all500, body>>
payloadVars == <<Domain, zone, name, payload>>
acmeVars == <<m, mpc, provRet, periodic, ticks, inflight, req, served, updErr>>

vars == <<callVars, payloadVars, acmeVars>>

cfgVars ==
  <<variant, op, Token, envToken, MaxRetries, InitialBackoffMillis,
    DeleteDelaySeconds, Resolver, recs>>
helperVars == <<attempt, backoff, lastErr, resp, hResp, hErr, sleep, woken, all500>>
histVars == <<sent, sleeps, tried>>


\* ------------------------------------------------------ pure helpers
IsDigit(c) == c \in {"0", "1", "2", "3", "4", "5", "6", "7", "8", "9"}

DigitVal(c) ==
  CASE c = "0" -> 0 [] c = "1" -> 1 [] c = "2" -> 2 [] c = "3" -> 3
    [] c = "4" -> 4 [] c = "5" -> 5 [] c = "6" -> 6 [] c = "7" -> 7
    [] c = "8" -> 8 [] c = "9" -> 9

RECURSIVE DigitPrefixLen(_)
DigitPrefixLen(s) ==
  IF s = <<>> \/ ~IsDigit(Head(s)) THEN 0 ELSE 1 + DigitPrefixLen(Tail(s))

RECURSIVE Atoi(_)
Atoi(s) ==
  IF s = <<>> THEN 0 ELSE 10 * Atoi(SubSeq(s, 1, Len(s) - 1)) + DigitVal(s[Len(s)])

\* Milliseconds per unit of time.ParseDuration; -1 for an unknown unit.
UnitMillis(u) ==
  CASE u = <<"s">> -> 1000
    [] u = <<"m", "s">> -> 1
    [] u = <<"m">> -> 60000
    [] u = <<"h">> -> 3600000
    [] OTHER -> -1

\* time.ParseDuration on "<integer><unit>"; everything else is a parse error.
ParseDuration(s) ==
  LET n == DigitPrefixLen(s)
      u == SubSeq(s, n + 1, Len(s))
  IN  IF n = 0 \/ UnitMillis(u) < 0
        THEN [ok |-> FALSE, d |-> 0]
        ELSE [ok |-> TRUE, d |-> Atoi(SubSeq(s, 1, n)) * UnitMillis(u)]

\* Faulty variant of Sleep429: the Retry-After header is ignored.
Sleep429_ignoringHeader(ra, b) == b

\* The wait doWithRetry chooses after a 429: Retry-After if it parses as
\* seconds, else the current backoff.
Sleep429(ra, b) ==
  IF ra # <<>> /\ ParseDuration(ra \o <<"s">>).ok
    THEN ParseDuration(ra \o <<"s">>).d
    ELSE b

NextBackoff(b) == b * 2

ServerError(s, b) == [kind |-> "server", status |-> s, body |-> b]
ApiError(s, b) == [kind |-> "api", status |-> s, body |-> b]
Exhausted(n) == [kind |-> "exhausted", attempts |-> n]

\* Faulty variant of doWithRetryClass: only 200 counts as final, every other
\* status below 500 is retried like a failure.
doWithRetryClass_only200(o) ==
  IF o.kind = "resp"
    THEN IF o.status = 200 THEN "final"
         ELSE IF o.status = 429 THEN "ratelimit"
         ELSE "fail"
    ELSE "fail"

\* doWithRetry's branch for one outcome of client.Do.
doWithRetryClass(o) ==
  IF o.kind = "resp"
    THEN IF o.status >= 500 THEN "fail"
         ELSE IF o.status = 429 THEN "ratelimit"
         ELSE "final"
    ELSE "fail"

\* Faulty variant of doWithRetryLoopCond: one iteration short.
doWithRetryLoopCond_exclusive(a, n) == a < n

\* doWithRetry's loop condition.
doWithRetryLoopCond(a, n) == a <= n

\* The statuses DnsIPv64Provider accepts after doWithRetry returned a response.
DnsStatusAccepted(s) == s = 200 \/ s = 201 \/ s = 202

\* strings.Contains(err.Error(), "timeout") || ...(..., "connection")
ErrIsTransient(e) ==
  e.kind = "net" /\ e.msg \in {"dial tcp: connection refused", "i/o timeout"}

\* Faulty variant of doWithRetryFormClass: client errors are retried too.
doWithRetryFormClass_retry4xx(o) ==
  IF o.kind = "resp"
    THEN IF o.status >= 200 /\ o.status < 300 THEN "ok"
         ELSE IF o.status >= 400 THEN "retry"
         ELSE "error"
    ELSE IF ErrIsTransient(o) THEN "retry" ELSE "error"

\* doWithRetryForm's branch for one outcome of client.Do.
doWithRetryFormClass(o) ==
  IF o.kind = "resp"
    THEN IF o.status >= 200 /\ o.status < 300 THEN "ok"
         ELSE IF o.status = 429 \/ o.status >= 500 THEN "retry"
         ELSE "error"
    ELSE IF ErrIsTransient(o) THEN "retry" ELSE "error"

\* doWithRetryForm's loop condition.
doWithRetryFormLoopCond(a, n) == a < n

\* ------------------------------------------------------------ contexts
\* The cleanup goroutine of DnsIPv64Provider.DeleteRecords runs on ctx2.
UsesCtx2 == variant = "dns" /\ op = "delete"
CtxDone == IF UsesCtx2 THEN ctx2Done ELSE cancelled
CtxErr == IF UsesCtx2 THEN DeadlineExceeded ELSE Canceled

\* What client.Do can return: with the request's context done, its error;
\* otherwise any response or network error.  doWithRetry sends the same
\* *http.Request again on a retry; what the transport and the server make of
\* the re-sent request is left open here: every outcome is possible.
DoOutcomes ==
  IF CtxDone THEN {CtxErr} ELSE Responses \cup {NetError(e) : e \in NetErrs}

DnsWaits == {"dns_wait429", "dns_backoff"}

\* The body of the request doWithRetry sends was read to its end by an
\* earlier client.Do: the request is built once per record by the caller
\* (a strings.Reader), and the previous attempt of this record was answered,
\* which the transport does only after it has written the whole body.
\* client.Do does not rewind the body of a request it is given again.
ReqBodyConsumed ==
  /\ variant = "dns"
  /\ attempt >= 1
  /\ resp # NoResp /\ resp.kind = "resp"

\* ------------------------------------------- components at rest
NoPayload == [kind |-> "none"]
NoReq == [kind |-> "none"]

\* No payload is being built.
PayloadIdle ==
  /\ Domain = <<>>
  /\ zone = <<>>
  /\ name = <<>>
  /\ payload = NoPayload

\* No AcmeIPv64Module exists.
ModuleIdle ==
  /\ m = [kind |-> "none"]
  /\ mpc = "off"
  /\ provRet = NoRet
  /\ periodic = "none"
  /\ ticks = 0
  /\ inflight = 0
  /\ req = NoReq
  /\ served = 0
  /\ updErr = NoErr

\* ----------------------------------------------------------------- Init
RecLists == {[k \in 1..n |-> k] : n \in 0..MaxRecs}

Init ==
  /\ variant \in Variants
  /\ op \in Ops
  /\ Token \in Tokens
  /\ envToken \in Tokens
  \* Only Provider reads the token to decide anything (validation, fallback).
  /\ variant = "dns" => Token = "tok" /\ envToken = ""
  /\ MaxRetries \in 0..MaxRetriesBound
  /\ InitialBackoffMillis \in RawBackoffs
  /\ DeleteDelaySeconds \in RawDeleteDelays
  /\ Resolver = <<>>
  \* Only DnsIPv64Provider.DeleteRecords reads the delete delay.
  /\ (variant = "form" \/ op = "append") => DeleteDelaySeconds = 0
  /\ recs \in RecLists
  /\ pc = "new"
  /\ i = 0
  /\ attempt = 0
  /\ backoff = 0
  /\ lastErr = NoErr
  /\ resp = NoResp
  /\ hResp = NoResp
  /\ hErr = NoErr
  /\ sleep = 0
  /\ woken = FALSE
  /\ sent = 0
  /\ sleeps = 0
  /\ tried = {}
  /\ created = <<>>
  /\ ret = NoRet
  /\ cancelled = FALSE
  /\ ctx2Done = FALSE
  /\ waited = "none"
  /\ all500 = TRUE
  /\ body = "none"
  /\ PayloadIdle
  /\ ModuleIdle

\* ------------------------------------------------------------ Provision
DnsIPv64Provider_Provision ==
  /\ pc = "new" /\ variant = "dns"
  /\ pc' = "ready"
  /\ MaxRetries' = IF MaxRetries <= 0 THEN DnsDefaultMaxRetries ELSE MaxRetries
  /\ InitialBackoffMillis' =
       IF InitialBackoffMillis <= 0 THEN DnsDefaultBackoffMillis
       ELSE InitialBackoffMillis
  /\ DeleteDelaySeconds' =
       IF DeleteDelaySeconds <= 0 THEN DnsDefaultDeleteDelaySeconds
       ELSE DeleteDelaySeconds
  /\ Resolver' = IF Len(Resolver) = 0 THEN DnsDefaultResolvers ELSE Resolver
  /\ UNCHANGED <<payloadVars, acmeVars, waited, variant, op, Token, envToken, recs, i, helperVars, body, histVars,
                 created, ret, cancelled, ctx2Done>>

Provider_Provision ==
  /\ pc = "new" /\ variant = "form"
  /\ pc' = "ready"
  /\ Token' = IF Token = "" THEN envToken ELSE Token
  /\ MaxRetries' = IF MaxRetries <= 0 THEN FormDefaultMaxRetries ELSE MaxRetries
  /\ InitialBackoffMillis' =
       IF InitialBackoffMillis <= 0 THEN FormDefaultBackoffMillis
       ELSE InitialBackoffMillis
  \* A configured list would get ":53" added to its entries without a port;
  \* the configurations followed here leave the list unset.
  /\ Resolver' = IF Len(Resolver) = 0 THEN FormDefaultResolvers ELSE Resolver
  /\ UNCHANGED <<payloadVars, acmeVars, waited, variant, op, envToken, DeleteDelaySeconds, recs, i,
                 helperVars, body, histVars, created, ret, cancelled, ctx2Done>>

\* ------------------------------------------------- shared step pieces
\* Entry of the retry helper for record j; p is the helper's loop head.
BeginRecord(j, p) ==
  /\ i' = j
  /\ pc' = p
  /\ attempt' = 0
  /\ backoff' = InitialBackoffMillis
  /\ lastErr' = NoErr
  /\ resp' = NoResp
  /\ hResp' = NoResp
  /\ hErr' = NoErr
  /\ sleep' = 0
  /\ woken' = FALSE
  /\ all500' = TRUE
  /\ tried' = tried \cup {j}
  /\ sent' = 0
  /\ sleeps' = 0
  /\ body' = "none"

Returned(rs, e) == [kind |-> "ret", recs |-> rs, err |-> e]


\* What doWithRetry does with resp.Body on each branch: a 5xx body is read
\* and closed, a 429 body is closed without being read, every other
\* response is returned with its body open; "none" when no response came.
doWithRetryBody(o) ==
  IF o.kind # "resp" THEN "none"
  ELSE IF o.status >= 500 THEN "closed"
  ELSE IF o.status = 429 THEN "dropped"
  ELSE "open"

\* doWithRetryForm reads every response with io.ReadAll and closes it.
doWithRetryFormBody(o) == IF o.kind # "resp" THEN "none" ELSE "closed"

\* ------------------------------------------------- doWithRetry (dns)
\* One loop iteration up to its next blocking point: client.Do, then the
\* branch on the outcome.
doWithRetry_Do ==
  /\ pc = "dns_loop"
  /\ doWithRetryLoopCond(attempt, MaxRetries)
  /\ \E o \in DoOutcomes :
       LET cls == doWithRetryClass(o)
           newLast == IF cls # "fail" THEN lastErr
                      ELSE IF o.kind = "resp" THEN ServerError(o.status, o.body)
                      ELSE o
       IN  /\ resp' = o
           /\ sent' = sent + 1
           /\ all500' = (all500 /\ o.kind = "resp" /\ o.status = 500)
           /\ lastErr' = newLast
           /\ body' = doWithRetryBody(o)
           /\ CASE cls = "final" ->
                     /\ pc' = "dns_ret"
                     /\ hResp' = o
                     /\ hErr' = NoErr
                     /\ UNCHANGED <<sleep, sleeps>>
                [] cls = "ratelimit" ->
                     /\ pc' = "dns_wait429"
                     /\ sleep' = Sleep429(o.ra, backoff)
                     /\ sleeps' = sleeps + 1
                     /\ UNCHANGED <<hResp, hErr>>
                [] cls = "fail" /\ attempt = MaxRetries ->
                     /\ pc' = "dns_ret"
                     /\ hResp' = NoResp
                     /\ hErr' = newLast
                     /\ UNCHANGED <<sleep, sleeps>>
                [] cls = "fail" /\ attempt # MaxRetries ->
                     /\ pc' = "dns_backoff"
                     /\ sleep' = backoff
                     /\ sleeps' = sleeps + 1
                     /\ UNCHANGED <<hResp, hErr>>
  /\ woken' = FALSE
  /\ UNCHANGED <<payloadVars, acmeVars, waited, cfgVars, i, attempt, backoff, tried, created, ret,
                 cancelled, ctx2Done>>

\* The for-loop's condition fails: return nil, lastErr.
doWithRetry_LoopExit ==
  /\ pc = "dns_loop"
  /\ ~doWithRetryLoopCond(attempt, MaxRetries)
  /\ pc' = "dns_ret"
  /\ hResp' = NoResp
  /\ hErr' = lastErr
  /\ UNCHANGED <<body, payloadVars, acmeVars, waited, cfgVars, i, attempt, backoff, lastErr, resp, sleep,
                 woken, all500, histVars, created, ret, cancelled, ctx2Done>>

\* A select { <-time.After(d); <-ctx.Done() } takes the timer case when the
\* timer fires while the goroutine is parked, or, with both channels ready at
\* entry (d <= 0 and the context already done), by a random choice.
TimerMayWin == ~woken /\ (~CtxDone \/ sleep <= 0)

\* case <-time.After(sleep) of the 429 branch, then backoff *= 2; continue.
doWithRetry_After429 ==
  /\ pc = "dns_wait429"
  /\ TimerMayWin
  /\ backoff' = NextBackoff(backoff)
  /\ attempt' = attempt + 1
  /\ pc' = "dns_loop"
  /\ UNCHANGED <<body, payloadVars, acmeVars, waited, cfgVars, i, lastErr, resp, hResp, hErr, sleep,
                 woken, all500, histVars, created, ret, cancelled, ctx2Done>>

\* case <-ctx.Done() of the 429 branch: return nil, ctx.Err().
doWithRetry_Done429 ==
  /\ pc = "dns_wait429"
  /\ CtxDone
  /\ pc' = "dns_ret"
  /\ hResp' = NoResp
  /\ hErr' = CtxErr
  /\ UNCHANGED <<body, payloadVars, acmeVars, waited, cfgVars, i, attempt, backoff, lastErr, resp, sleep,
                 woken, all500, histVars, created, ret, cancelled, ctx2Done>>

\* case <-time.After(backoff) after a 5xx or a network error, then
\* backoff *= 2 and the loop's attempt++.
doWithRetry_AfterBackoff ==
  /\ pc = "dns_backoff"
  /\ TimerMayWin
  /\ backoff' = NextBackoff(backoff)
  /\ attempt' = attempt + 1
  /\ pc' = "dns_loop"
  /\ UNCHANGED <<body, payloadVars, acmeVars, waited, cfgVars, i, lastErr, resp, hResp, hErr, sleep,
                 woken, all500, histVars, created, ret, cancelled, ctx2Done>>

\* Faulty variant of doWithRetry_DoneBackoff: a done context ends the wait
\* early but the loop goes on to its next attempt.
doWithRetry_DoneBackoff_retrying ==
  /\ pc = "dns_backoff"
  /\ CtxDone
  /\ backoff' = NextBackoff(backoff)
  /\ attempt' = attempt + 1
  /\ pc' = "dns_loop"
  /\ UNCHANGED <<body, payloadVars, acmeVars, waited, cfgVars, i, lastErr, resp, hResp, hErr, sleep, woken, all500,
                 histVars, created, ret, cancelled, ctx2Done>>

\* case <-ctx.Done() of the backoff wait: return nil, ctx.Err().
doWithRetry_DoneBackoff ==
  /\ pc = "dns_backoff"
  /\ CtxDone
  /\ pc' = "dns_ret"
  /\ hResp' = NoResp
  /\ hErr' = CtxErr
  /\ UNCHANGED <<body, payloadVars, acmeVars, waited, cfgVars, i, attempt, backoff, lastErr, resp, sleep,
                 woken, all500, histVars, created, ret, cancelled, ctx2Done>>

\* ------------------------------------- DnsIPv64Provider.AppendRecords
\* The call up to its first client.Do; an empty list returns at once.
DnsIPv64Provider_AppendRecords ==
  /\ pc \in {"new", "ready"} /\ variant = "dns" /\ op = "append"
  /\ IF recs = <<>>
       THEN /\ pc' = "done"
            /\ ret' = Returned(<<>>, NoErr)
            /\ UNCHANGED <<i, helperVars, body, histVars>>
       ELSE /\ BeginRecord(1, "dns_loop")
            /\ ret' = ret
  /\ UNCHANGED <<payloadVars, acmeVars, waited, cfgVars, created, cancelled, ctx2Done>>

\* After doWithRetry returned: the error check, the status check on the
\* response, the append to created, and the next loop iteration or return.
DnsIPv64Provider_AppendResult ==
  /\ pc = "dns_ret" /\ op = "append"
  /\ IF hErr # NoErr
       THEN /\ pc' = "done"
            /\ ret' = Returned(created, hErr)
            /\ UNCHANGED <<i, helperVars, body, histVars, created>>
       ELSE IF hResp = NoResp
       THEN \* resp.Body on a nil *http.Response: nil pointer dereference
            /\ pc' = "panic"
            /\ UNCHANGED <<i, helperVars, body, histVars, created, ret>>
       ELSE IF ~DnsStatusAccepted(hResp.status)
       THEN \* io.ReadAll(resp.Body), then the deferred resp.Body.Close()
            /\ pc' = "done"
            /\ ret' = Returned(created, ApiError(hResp.status, hResp.body))
            /\ body' = "closed"
            /\ UNCHANGED <<i, helperVars, histVars, created>>
       ELSE /\ created' = Append(created, recs[i])
            /\ IF i < Len(recs)
                 THEN /\ BeginRecord(i + 1, "dns_loop")
                      /\ ret' = ret
                 ELSE /\ pc' = "done"
                      /\ ret' = Returned(Append(created, recs[i]), NoErr)
                      /\ body' = "closed"
                      /\ UNCHANGED <<i, helperVars, histVars>>
  /\ UNCHANGED <<payloadVars, acmeVars, waited, cfgVars, cancelled, ctx2Done>>


\* ------------------------------------- DnsIPv64Provider.DeleteRecords
\* The call itself: copy the inputs, start the cleanup goroutine, return
\* (recs, nil).  pc then follows the goroutine.
DnsIPv64Provider_DeleteRecords ==
  /\ pc \in {"new", "ready"} /\ variant = "dns" /\ op = "delete"
  /\ ret' = Returned(recs, NoErr)
  /\ pc' = IF DeleteDelaySeconds * 1000 > 0 THEN "del_delay" ELSE "del_start"
  /\ UNCHANGED <<payloadVars, acmeVars, waited, cfgVars, i, helperVars, body, histVars, created,
                 cancelled, ctx2Done>>

\* case <-timer.C of the delay select.
cleanup_DelayTimer ==
  /\ pc = "del_delay"
  /\ ~cancelled
  /\ pc' = "del_start"
  /\ sleep' = DeleteDelaySeconds * 1000
  /\ waited' = "delay"
  /\ UNCHANGED <<body, payloadVars, acmeVars, cfgVars, i, attempt, backoff, lastErr, resp, hResp,
                 hErr, woken, all500, histVars, created, ret, cancelled, ctx2Done>>

\* Faulty variant of cleanup_DelayCancelled: a cancelled delay goes straight
\* on to the deletes, without the grace sleep.
cleanup_DelayCancelled_noGrace ==
  /\ pc = "del_delay"
  /\ cancelled
  /\ pc' = "del_start"
  /\ UNCHANGED <<payloadVars, acmeVars, waited, cfgVars, i, helperVars, body, histVars, created, ret,
                 cancelled, ctx2Done>>

\* case <-ctx.Done() of the delay select: the grace sleep starts.
cleanup_DelayCancelled ==
  /\ pc = "del_delay"
  /\ cancelled
  /\ pc' = "del_grace"
  /\ UNCHANGED <<payloadVars, acmeVars, waited, cfgVars, i, helperVars, body, histVars, created, ret,
                 cancelled, ctx2Done>>

\* time.Sleep(2 * time.Second) has elapsed.
cleanup_GraceSlept ==
  /\ pc = "del_grace"
  /\ pc' = "del_start"
  /\ sleep' = GraceSleepMillis
  /\ waited' = "grace"
  /\ UNCHANGED <<body, payloadVars, acmeVars, cfgVars, i, attempt, backoff, lastErr, resp, hResp,
                 hErr, woken, all500, histVars, created, ret, cancelled, ctx2Done>>

\* ctx2 is created and the loop over recsCopy starts.
cleanup_Start ==
  /\ pc = "del_start"
  /\ ctx2Done' = FALSE
  /\ IF recs = <<>>
       THEN /\ pc' = "done"
            /\ UNCHANGED <<i, helperVars, body, histVars>>
       ELSE BeginRecord(1, "dns_loop")
  /\ UNCHANGED <<payloadVars, acmeVars, waited, cfgVars, created, ret, cancelled>>

\* After doWithRetry returned in the goroutine: every outcome is logged and
\* the loop goes on, except that a nil response with a nil error is used.
cleanup_DeleteResult ==
  /\ pc = "dns_ret" /\ op = "delete"
  /\ IF hErr = NoErr /\ hResp = NoResp
       THEN /\ pc' = "panic"
            /\ UNCHANGED <<i, helperVars, body, histVars>>
       ELSE IF i < Len(recs)
       THEN BeginRecord(i + 1, "dns_loop")
       ELSE /\ pc' = "done"
            \* io.ReadAll(resp.Body), then the deferred resp.Body.Close()
            /\ body' = IF hErr = NoErr THEN "closed" ELSE body
            /\ UNCHANGED <<i, helperVars, histVars>>
  /\ UNCHANGED <<payloadVars, acmeVars, waited, cfgVars, created, ret, cancelled, ctx2Done>>

\* ------------------------------------------ doWithRetryForm (form)
\* One loop iteration up to time.Sleep or the return.
doWithRetryForm_Do ==
  /\ pc = "form_loop"
  /\ doWithRetryFormLoopCond(attempt, MaxRetries)
  /\ \E o \in DoOutcomes :
       LET cls == doWithRetryFormClass(o)
       IN  /\ resp' = o
           /\ sent' = sent + 1
           /\ all500' = (all500 /\ o.kind = "resp" /\ o.status = 500)
           /\ body' = doWithRetryFormBody(o)
           /\ CASE cls = "ok" ->
                     /\ pc' = "form_ret"
                     /\ hErr' = NoErr
                     /\ UNCHANGED <<sleep, sleeps>>
                [] cls = "retry" ->
                     /\ pc' = "form_sleep"
                     /\ sleep' = backoff
                     /\ sleeps' = sleeps + 1
                     /\ hErr' = hErr
                [] cls = "error" ->
                     /\ pc' = "form_ret"
                     /\ hErr' = IF o.kind = "resp" THEN ApiError(o.status, o.body)
                                ELSE o
                     /\ UNCHANGED <<sleep, sleeps>>
  /\ UNCHANGED <<payloadVars, acmeVars, waited, cfgVars, i, attempt, backoff, lastErr, hResp, woken,
                 tried, created, ret, cancelled, ctx2Done>>

\* The for-loop's condition fails: "ipv64 API failed after %d attempts".
doWithRetryForm_LoopExit ==
  /\ pc = "form_loop"
  /\ ~doWithRetryFormLoopCond(attempt, MaxRetries)
  /\ pc' = "form_ret"
  /\ hErr' = Exhausted(MaxRetries)
  /\ UNCHANGED <<body, payloadVars, acmeVars, waited, cfgVars, i, attempt, backoff, lastErr, resp, hResp,
                 sleep, woken, all500, histVars, created, ret, cancelled, ctx2Done>>

\* time.Sleep(backoff) has elapsed; backoff *= 2; continue.
doWithRetryForm_Slept ==
  /\ pc = "form_sleep"
  /\ backoff' = NextBackoff(backoff)
  /\ attempt' = attempt + 1
  /\ pc' = "form_loop"
  /\ UNCHANGED <<body, payloadVars, acmeVars, waited, cfgVars, i, lastErr, resp, hResp, hErr, sleep,
                 woken, all500, histVars, created, ret, cancelled, ctx2Done>>

\* ------------------------------------------------ Provider (form) ops
ConfigError == [kind |-> "config", msg |-> "api_token is required"]

\* Validate, then the call up to its first client.Do.
Provider_AppendRecords ==
  /\ pc \in {"new", "ready"} /\ variant = "form" /\ op = "append"
  /\ IF Token = ""
       THEN /\ pc' = "done"
            /\ ret' = Returned(<<>>, ConfigError)
            /\ UNCHANGED <<i, helperVars, body, histVars>>
       ELSE IF recs = <<>>
       THEN /\ pc' = "done"
            /\ ret' = Returned(<<>>, NoErr)
            /\ UNCHANGED <<i, helperVars, body, histVars>>
       ELSE /\ BeginRecord(1, "form_loop")
            /\ ret' = ret
  /\ UNCHANGED <<payloadVars, acmeVars, waited, cfgVars, created, cancelled, ctx2Done>>

\* After doWithRetryForm returned: abort on error, else append and go on.
Provider_AppendResult ==
  /\ pc = "form_ret" /\ op = "append"
  /\ IF hErr # NoErr
       THEN /\ pc' = "done"
            /\ ret' = Returned(created, hErr)
            /\ UNCHANGED <<i, helperVars, body, histVars, created>>
       ELSE /\ created' = Append(created, recs[i])
            /\ IF i < Len(recs)
                 THEN /\ BeginRecord(i + 1, "form_loop")
                      /\ ret' = ret
                 ELSE /\ pc' = "done"
                      /\ ret' = Returned(Append(created, recs[i]), NoErr)
                      /\ UNCHANGED <<i, helperVars, body, histVars>>
  /\ UNCHANGED <<payloadVars, acmeVars, waited, cfgVars, cancelled, ctx2Done>>

\* Faulty variant of Provider_DeleteRecords: the call does not validate.
Provider_DeleteRecords_noValidate ==
  /\ pc \in {"new", "ready"} /\ variant = "form" /\ op = "delete"
  /\ IF recs = <<>>
       THEN /\ pc' = "done"
            /\ ret' = Returned(<<>>, NoErr)
            /\ UNCHANGED <<i, helperVars, body, histVars>>
       ELSE /\ BeginRecord(1, "form_loop")
            /\ ret' = ret
  /\ UNCHANGED <<payloadVars, acmeVars, waited, cfgVars, created, cancelled, ctx2Done>>

\* Validate, then the call up to its first client.Do.
Provider_DeleteRecords ==
  /\ pc \in {"new", "ready"} /\ variant = "form" /\ op = "delete"
  /\ IF Token = ""
       THEN /\ pc' = "done"
            /\ ret' = Returned(<<>>, ConfigError)
            /\ UNCHANGED <<i, helperVars, body, histVars>>
       ELSE IF recs = <<>>
       THEN /\ pc' = "done"
            /\ ret' = Returned(<<>>, NoErr)
            /\ UNCHANGED <<i, helperVars, body, histVars>>
       ELSE /\ BeginRecord(1, "form_loop")
            /\ ret' = ret
  /\ UNCHANGED <<payloadVars, acmeVars, waited, cfgVars, created, cancelled, ctx2Done>>

\* After doWithRetryForm returned: a failure is logged and skipped, a success
\* is appended to deleted; after the last record (deleted, nil) is returned.
Provider_DeleteResult ==
  /\ pc = "form_ret" /\ op = "delete"
  /\ LET deleted == IF hErr # NoErr THEN created ELSE Append(created, recs[i])
     IN  /\ created' = deleted
         /\ IF i < Len(recs)
              THEN /\ BeginRecord(i + 1, "form_loop")
                   /\ ret' = ret
              ELSE /\ pc' = "done"
                   /\ ret' = Returned(deleted, NoErr)
                   /\ UNCHANGED <<i, helperVars, body, histVars>>
  /\ UNCHANGED <<payloadVars, acmeVars, waited, cfgVars, cancelled, ctx2Done>>

\* --------------------------------------------------------- environment
Running == pc \notin {"done", "panic"}

\* The host cancels the context it passed to the call.
ctx_Cancel ==
  /\ Running
  /\ ~cancelled
  /\ cancelled' = TRUE
  /\ woken' = IF pc \in DnsWaits /\ ~UsesCtx2 THEN TRUE ELSE woken
  /\ UNCHANGED <<body, payloadVars, acmeVars, waited, cfgVars, pc, i, attempt, backoff, lastErr, resp,
                 hResp, hErr, sleep, all500, histVars, created, ret, ctx2Done>>

\* The deadline of ctx2 (TimeoutSeconds+10 s after the delay) passes.
ctx2_Timeout ==
  /\ UsesCtx2
  /\ pc \in {"dns_loop", "dns_wait429", "dns_backoff", "dns_ret"}
  /\ ~ctx2Done
  /\ ctx2Done' = TRUE
  /\ woken' = IF pc \in DnsWaits THEN TRUE ELSE woken
  /\ UNCHANGED <<body, payloadVars, acmeVars, waited, cfgVars, pc, i, attempt, backoff, lastErr, resp,
                 hResp, hErr, sleep, all500, histVars, created, ret, cancelled>>

\* ----------------------------------------------------- specification
Next ==
  \/ DnsIPv64Provider_Provision
  \/ Provider_Provision
  \/ DnsIPv64Provider_AppendRecords
  \/ DnsIPv64Provider_AppendResult
  \/ DnsIPv64Provider_DeleteRecords
  \/ cleanup_DelayTimer
  \/ cleanup_DelayCancelled
  \/ cleanup_GraceSlept
  \/ cleanup_Start
  \/ cleanup_DeleteResult
  \/ doWithRetry_Do
  \/ doWithRetry_LoopExit
  \/ doWithRetry_After429
  \/ doWithRetry_Done429
  \/ doWithRetry_AfterBackoff
  \/ doWithRetry_DoneBackoff
  \/ Provider_AppendRecords
  \/ Provider_AppendResult
  \/ Provider_DeleteRecords
  \/ Provider_DeleteResult
  \/ doWithRetryForm_Do
  \/ doWithRetryForm_LoopExit
  \/ doWithRetryForm_Slept
  \/ ctx_Cancel
  \/ ctx2_Timeout

Spec == Init /\ [][Next]_vars

\* Every wait of the program is timed, every client.Do returns (the client
\* has a Timeout), and the Go scheduler runs every runnable goroutine: while
\* a step is possible, a step is eventually taken.
Fairness == WF_vars(Next)
FairSpec == Spec /\ Fairness

TypeOK ==
  /\ pc \in {"new", "ready", "del_delay", "del_grace", "del_start", "dns_loop",
             "dns_wait429", "dns_backoff", "dns_ret", "form_loop", "form_sleep",
             "form_ret", "done", "panic"}
  /\ i \in 0..MaxRecs
  /\ attempt \in Nat
  /\ backoff \in Nat


\* ======================================= the form payload of one record
\* Strings are sequences of one-character strings.

\* Largest number of labels in a record name (r.Name).
MaxNameLabels == 2

Dot == <<".">>
At == <<"@">>
s_acme == <<"_", "a", "c", "m", "e", "-", "c", "h", "a", "l", "l", "e", "n", "g", "e">>
s_foo == <<"f", "o", "o">>
s_sub == <<"s", "u", "b">>
s_example64 == <<"e", "x", "a", "m", "p", "l", "e", "6", "4">>
s_Example64 == <<"E", "x", "a", "m", "p", "l", "e", "6", "4">>
s_example == <<"e", "x", "a", "m", "p", "l", "e">>
s_de == <<"d", "e">>
s_net == <<"n", "e", "t">>
s_com == <<"c", "o", "m">>
s_64 == <<"6", "4">>

UpperCase ==
  <<"A", "B", "C", "D", "E", "F", "G", "H", "I", "J", "K", "L", "M",
    "N", "O", "P", "Q", "R", "S", "T", "U", "V", "W", "X", "Y", "Z">>
LowerCase ==
  <<"a", "b", "c", "d", "e", "f", "g", "h", "i", "j", "k", "l", "m",
    "n", "o", "p", "q", "r", "s", "t", "u", "v", "w", "x", "y", "z">>

\* strings.ToLower, strings.HasPrefix, HasSuffix, TrimPrefix, TrimSuffix
ToLower(str) ==
  [k \in 1..Len(str) |->
     IF \E u \in 1..26 : UpperCase[u] = str[k]
       THEN LowerCase[CHOOSE u \in 1..26 : UpperCase[u] = str[k]]
       ELSE str[k]]
HasPrefix(str, pre) == Len(pre) <= Len(str) /\ SubSeq(str, 1, Len(pre)) = pre
HasSuffix(str, suf) ==
  Len(suf) <= Len(str) /\ SubSeq(str, Len(str) - Len(suf) + 1, Len(str)) = suf
TrimPrefix(str, pre) ==
  IF HasPrefix(str, pre) THEN SubSeq(str, Len(pre) + 1, Len(str)) ELSE str
TrimSuffix(str, suf) ==
  IF HasSuffix(str, suf) THEN SubSeq(str, 1, Len(str) - Len(suf)) ELSE str

\* Index of the first "." of str, 0 when there is none.
IndexDot(str) ==
  IF \E k \in 1..Len(str) : str[k] = "."
    THEN CHOOSE k \in 1..Len(str) :
           str[k] = "." /\ \A j \in 1..(k - 1) : str[j] # "."
    ELSE 0

\* strings.Split(str, ".") and strings.Join(parts, ".")
RECURSIVE Split(_)
Split(str) ==
  IF IndexDot(str) = 0 THEN <<str>>
  ELSE <<SubSeq(str, 1, IndexDot(str) - 1)>>
         \o Split(SubSeq(str, IndexDot(str) + 1, Len(str)))
RECURSIVE Join(_)
Join(parts) ==
  IF parts = <<>> THEN <<>>
  ELSE IF Len(parts) = 1 THEN parts[1]
  ELSE parts[1] \o Dot \o Join(Tail(parts))

\* ------------------------------------------------------- input universe
NameLabels == {s_acme, s_foo, s_sub, s_example64, s_de}
LabelSeqs(n) == UNION {[1..k -> NameLabels] : k \in 1..n}
\* r.Name: empty, the apex marker, relative names, and absolute spellings.
RecordNames ==
  {<<>>, At}
    \cup {Join(ls) : ls \in LabelSeqs(MaxNameLabels)}
    \cup {Join(ls) \o Dot : ls \in LabelSeqs(MaxNameLabels)}
Zones ==
  {<<>>,
   Join(<<s_example64, s_de>>), Join(<<s_example64, s_de>>) \o Dot,
   Join(<<s_sub, s_example64, s_de>>) \o Dot,
   Join(<<s_example, s_com>>) \o Dot,
   Join(<<s_example64, s_net>>) \o Dot,
   Join(<<s_sub, s_64, s_de>>)}
Domains ==
  {<<>>,
   Join(<<s_example64, s_de>>),
   Join(<<s_Example64, s_de>>),
   Join(<<s_sub, s_example64, s_de>>) \o Dot,
   Join(<<s_example, s_com>>)}

\* ------------------------------------------------ DnsIPv64Provider side
\* Faulty variant of relativePrefix: the apex is sent as the empty label.
relativePrefix_emptyApex(fullName, domain) ==
  LET f == TrimSuffix(ToLower(fullName), Dot)
      d == TrimSuffix(ToLower(domain), Dot)
  IN  IF f = d THEN <<>>
      ELSE IF HasSuffix(f, Dot \o d) THEN TrimSuffix(f, Dot \o d)
      ELSE f

relativePrefix(fullName, domain) ==
  LET f == TrimSuffix(ToLower(fullName), Dot)
      d == TrimSuffix(ToLower(domain), Dot)
  IN  IF f = d THEN At
      ELSE IF HasSuffix(f, Dot \o d) THEN TrimSuffix(f, Dot \o d)
      ELSE f

\* fullName as AppendRecords / DeleteRecords of DnsIPv64Provider build it.
DnsFullName(rName, z0, cfgDomain) ==
  LET z == TrimSuffix(z0, Dot)
  IN  IF rName # <<>> /\ rName # At
        THEN IF z # <<>> THEN TrimSuffix(rName, Dot) \o Dot \o z
             ELSE TrimSuffix(rName, Dot)
        ELSE IF z # <<>> THEN z ELSE TrimSuffix(cfgDomain, Dot)

\* -------------------------------------------------------- Provider side
normalizeZone(z) == IF ~HasSuffix(z, Dot) THEN z \o Dot ELSE z

\* strings.Trim(str, "."): every leading and trailing dot is removed.
RECURSIVE TrimDots(_)
TrimDots(str) ==
  IF HasPrefix(str, Dot) THEN TrimDots(TrimPrefix(str, Dot))
  ELSE IF HasSuffix(str, Dot) THEN TrimDots(TrimSuffix(str, Dot))
  ELSE str

\* libdns.AbsoluteName(name, zone)
AbsoluteName(rName, z) ==
  IF z = <<>> THEN TrimDots(rName)
  ELSE IF rName = <<>> \/ rName = At THEN z
  ELSE (IF HasSuffix(rName, Dot) THEN rName ELSE rName \o Dot) \o z

\* Faulty variant of ScanCandidates: only "de" counts as a last label.
ScanCandidates_onlyDe(parts, k) ==
  IF /\ Len(parts) >= 3
     /\ HasSuffix(parts[Len(parts) - 1], s_64)
     /\ parts[Len(parts)] = s_de
    THEN Join(SubSeq(parts, Len(parts) - 2, Len(parts)))
    ELSE <<>>

\* The right-to-left scan of deriveManagedZone from index k (0-based) down:
\* the first candidate of exactly three labels whose middle label ends in
\* "64" and whose last label is "de" or "net"; <<>> when there is none.
RECURSIVE ScanCandidates(_, _)
ScanCandidates(parts, k) ==
  IF k < 0 THEN <<>>
  ELSE LET candidate == Join(SubSeq(parts, k + 1, Len(parts)))
           candidateParts == Split(candidate)
       IN  IF /\ Len(candidateParts) = 3
              /\ HasSuffix(candidateParts[2], s_64)
              /\ candidateParts[3] \in {s_de, <<"n", "e", "t">>}
             THEN candidate
             ELSE ScanCandidates(parts, k - 1)

\* Faulty variant of deriveManagedZone: without a match the zone passed by
\* the host is returned.
deriveManagedZone_fallbackZone(fqdn0, zone0, domain0) ==
  LET fqdn == TrimSuffix(fqdn0, Dot)
      zn == TrimSuffix(zone0, Dot)
      workingFqdn == IF HasPrefix(fqdn, s_acme \o Dot)
                       THEN TrimPrefix(fqdn, s_acme \o Dot) ELSE fqdn
      parts == Split(workingFqdn)
  IN  IF fqdn = zn THEN zn
      ELSE IF domain0 # <<>> THEN TrimSuffix(domain0, Dot)
      ELSE IF Len(parts) >= 3 /\ ScanCandidates(parts, Len(parts) - 2) # <<>>
        THEN ScanCandidates(parts, Len(parts) - 2)
      ELSE zn

\* Faulty variant of deriveManagedZone: the scan accepts a candidate of two
\* labels whose first label ends in "64".
deriveManagedZone_twoLabels(fqdn0, zone0, domain0) ==
  LET fqdn == TrimSuffix(fqdn0, Dot)
      zn == TrimSuffix(zone0, Dot)
      workingFqdn == IF HasPrefix(fqdn, s_acme \o Dot)
                       THEN TrimPrefix(fqdn, s_acme \o Dot) ELSE fqdn
      parts == Split(workingFqdn)
  IN  IF fqdn = zn THEN zn
      ELSE IF domain0 # <<>> THEN TrimSuffix(domain0, Dot)
      ELSE IF Len(parts) >= 2 /\ HasSuffix(parts[Len(parts) - 1], s_64)
        THEN Join(SubSeq(parts, Len(parts) - 1, Len(parts)))
      ELSE workingFqdn

deriveManagedZone(fqdn0, zone0, domain0) ==
  LET fqdn == TrimSuffix(fqdn0, Dot)
      zn == TrimSuffix(zone0, Dot)
      workingFqdn == IF HasPrefix(fqdn, s_acme \o Dot)
                       THEN TrimPrefix(fqdn, s_acme \o Dot) ELSE fqdn
      parts == Split(workingFqdn)
  IN  IF fqdn = zn THEN zn
      ELSE IF domain0 # <<>> THEN TrimSuffix(domain0, Dot)
      ELSE IF Len(parts) >= 3 /\ ScanCandidates(parts, Len(parts) - 2) # <<>>
        THEN ScanCandidates(parts, Len(parts) - 2)
      ELSE workingFqdn

\* Faulty variant of ProviderPrefix: the label is computed from the name
\* without its "_acme-challenge." prefix.
ProviderPrefix_stripped(fqdn, managed) ==
  LET fqdnClean == TrimPrefix(TrimSuffix(fqdn, Dot), s_acme \o Dot)
      managedClean == TrimSuffix(managed, Dot)
  IN  IF fqdnClean = managedClean THEN At
      ELSE IF HasSuffix(fqdnClean, Dot \o managedClean)
        THEN TrimSuffix(fqdnClean, Dot \o managedClean)
      ELSE Split(fqdnClean)[1]

\* The relative label Provider computes under the managed zone.
ProviderPrefix(fqdn, managed) ==
  LET fqdnClean == TrimSuffix(fqdn, Dot)
      managedClean == TrimSuffix(managed, Dot)
  IN  IF fqdnClean = managedClean THEN At
      ELSE IF HasSuffix(fqdnClean, Dot \o managedClean)
        THEN TrimSuffix(fqdnClean, Dot \o managedClean)
      ELSE Split(fqdnClean)[1]

\* ------------------------------------------------------------- actions
FormKey == IF op = "append" THEN "add_record" ELSE "del_record"
FormValues(k, fq, d, pre) ==
  [kind |-> "form", key |-> k, fqdn |-> fq, domain |-> d, praefix |-> pre]

\* The loop body of DnsIPv64Provider.AppendRecords / DeleteRecords up to
\* form.Set("praefix", prefix).
DnsIPv64Provider_BuildForm ==
  /\ variant = "dns"
  /\ payload = NoPayload /\ mpc = "off" /\ pc = "payload"
  /\ LET cfgDomain == TrimSuffix(Domain, Dot)
         fullName == DnsFullName(name, zone, cfgDomain)
         prefix == relativePrefix(fullName, cfgDomain)
     IN  payload' = FormValues(FormKey, fullName, cfgDomain, prefix)
  /\ UNCHANGED <<callVars, acmeVars, Domain, zone, name>>

\* The loop body of Provider.AppendRecords / DeleteRecords up to
\* formData.Set("praefix", prefix); an empty managed zone ends AppendRecords
\* with an error and makes DeleteRecords skip the record.
Provider_BuildForm ==
  /\ variant = "form"
  /\ payload = NoPayload /\ mpc = "off" /\ pc = "payload"
  /\ LET z == normalizeZone(zone)
         fqdn == AbsoluteName(name, z)
         managed == deriveManagedZone(fqdn, z, Domain)
     IN  payload' =
           IF managed = <<>>
             THEN [kind |-> IF op = "append" THEN "error" ELSE "skip",
                   fqdn |-> fqdn]
             ELSE FormValues(FormKey, fqdn, managed, ProviderPrefix(fqdn, managed))
  /\ UNCHANGED <<callVars, acmeVars, Domain, zone, name>>

\* No AppendRecords / DeleteRecords call is followed.
CallIdle ==
  /\ Token = "tok" /\ envToken = ""
  /\ MaxRetries = 0 /\ InitialBackoffMillis = 0 /\ DeleteDelaySeconds = 0
  /\ Resolver = <<>>
  /\ recs = <<>>
  /\ i = 0 /\ attempt = 0 /\ backoff = 0
  /\ lastErr = NoErr /\ resp = NoResp /\ hResp = NoResp /\ hErr = NoErr
  /\ sleep = 0 /\ woken = FALSE /\ sent = 0 /\ sleeps = 0
  /\ tried = {} /\ created = <<>> /\ ret = NoRet
  /\ cancelled = FALSE /\ ctx2Done = FALSE /\ waited = "none" /\ all500 = TRUE
  /\ body = "none"

PayloadInit ==
  /\ variant \in Variants
  /\ op \in Ops
  /\ pc = "payload"
  /\ CallIdle
  /\ ModuleIdle
  /\ Domain \in Domains
  /\ zone \in Zones
  /\ name \in RecordNames
  /\ payload = NoPayload

PayloadNext ==
  \/ DnsIPv64Provider_BuildForm
  \/ Provider_BuildForm

PayloadSpec == PayloadInit /\ [][PayloadNext]_vars


\* ===================================================== AcmeIPv64Module
\* Largest number of ServeHTTP calls and of periodic updates followed.
MaxRequests == 2
MaxTicks == 2

ChallengePath == <<"/", ".", "w", "e", "l", "l", "-", "k", "n", "o", "w", "n", "/", "a", "c", "m", "e", "-", "c", "h", "a", "l", "l", "e", "n", "g", "e", "/">>
\* r.URL.Path of the requests the handler sees.
Paths ==
  {ChallengePath \o <<"t">>,
   ChallengePath,
   SubSeq(ChallengePath, 1, Len(ChallengePath) - 1),
   <<"/", "x">> \o ChallengePath,
   <<"/">>}
\* What the next handler of the chain returns.
NextResults == {NoErr, [kind |-> "handler", msg |-> "upstream failed"]}
\* Outcomes of client.Get in ipv64Update.
UpdateOutcomes ==
  {Response(200, "ok", <<>>), Response(500, "ok", <<>>), NetError("i/o timeout")}
ModuleConfigs ==
  [Token : {"", "key"}, Domain : {"", "host"}, UpdateOnStart : BOOLEAN,
   IntervalSeconds : {0, 60}, UpdateOnChallenge : BOOLEAN,
   stopPeriodic : {"nil"}]

\* The return value of ipv64Update for one outcome of client.Get.
ipv64Update(o) ==
  IF o.kind # "resp" THEN o
  ELSE IF o.status # 200 THEN ApiError(o.status, o.body)
  ELSE NoErr

ModuleValidate(mod) ==
  IF mod.Token = "" \/ mod.Domain = ""
    THEN [kind |-> "config", msg |-> "token and domain must be set"]
    ELSE NoErr

\* ServeHTTP's condition for starting an update.
UpdateTriggered(mod, path) ==
  mod.UpdateOnChallenge /\ HasPrefix(path, ChallengePath)

ModuleAlive == mpc \notin {"off", "panic"}

\* The rest of Provision after the start-up update: the periodic goroutine
\* is started when an interval is set, and nil is returned.
ProvisionTail ==
  /\ mpc' = "provisioned"
  /\ provRet' = Returned(<<>>, NoErr)
  /\ IF m.IntervalSeconds > 0
       THEN /\ m' = [m EXCEPT !.stopPeriodic = "open"]
            /\ periodic' = "select"
       ELSE UNCHANGED <<m, periodic>>

\* Provision up to the start-up update or, without one, to its return.
AcmeIPv64Module_Provision ==
  /\ mpc = "new"
  /\ IF ModuleValidate(m) # NoErr
       THEN /\ mpc' = "invalid"
            /\ provRet' = Returned(<<>>, ModuleValidate(m))
            /\ UNCHANGED <<m, periodic>>
       ELSE IF m.UpdateOnStart
       THEN /\ mpc' = "start_update"
            /\ UNCHANGED <<m, periodic, provRet>>
       ELSE ProvisionTail
  /\ UNCHANGED <<callVars, payloadVars, ticks, inflight, req, served, updErr>>

\* ipv64Update("") of Provision returned: its error is logged only.
AcmeIPv64Module_ProvisionUpdated ==
  /\ mpc = "start_update"
  /\ \E o \in UpdateOutcomes : updErr' = ipv64Update(o)
  /\ ProvisionTail
  /\ UNCHANGED <<callVars, payloadVars, ticks, inflight, req, served>>

\* ServeHTTP up to the call of the next handler.
AcmeIPv64Module_ServeHTTP ==
  /\ mpc = "provisioned"
  /\ req.kind \in {"none", "returned"}
  /\ served < MaxRequests
  /\ \E path \in Paths :
       /\ req' = [kind |-> "next", path |-> path,
                  triggered |-> UpdateTriggered(m, path), nextCalls |-> 1]
       /\ inflight' = IF UpdateTriggered(m, path) THEN inflight + 1 ELSE inflight
  /\ served' = served + 1
  /\ UNCHANGED <<callVars, payloadVars, m, mpc, provRet, periodic, ticks, updErr>>

\* Faulty variant of ServeHTTP_Return: the handler's error is swallowed.
ServeHTTP_Return_swallowed ==
  /\ ModuleAlive
  /\ req.kind = "next"
  /\ \E r \in NextResults :
       req' = [kind |-> "returned", path |-> req.path,
               triggered |-> req.triggered, nextCalls |-> req.nextCalls,
               nextRet |-> r, ret |-> NoErr]
  /\ UNCHANGED <<callVars, payloadVars, m, mpc, provRet, periodic, ticks,
                 inflight, served, updErr>>

\* next.ServeHTTP returned and ServeHTTP returns its result.
ServeHTTP_Return ==
  /\ ModuleAlive
  /\ req.kind = "next"
  /\ \E r \in NextResults :
       req' = [kind |-> "returned", path |-> req.path,
               triggered |-> req.triggered, nextCalls |-> req.nextCalls,
               nextRet |-> r, ret |-> r]
  /\ UNCHANGED <<callVars, payloadVars, m, mpc, provRet, periodic, ticks,
                 inflight, served, updErr>>

\* A goroutine started by `go m.ipv64Update("")` ends; its result is dropped.
ipv64Update_Detached ==
  /\ ModuleAlive
  /\ inflight > 0
  /\ \E o \in UpdateOutcomes : inflight' = inflight - 1
  /\ UNCHANGED <<callVars, payloadVars, m, mpc, provRet, periodic, ticks,
                 req, served, updErr>>

\* case <-ticker.C of the periodic goroutine: an update starts.
periodic_Tick ==
  /\ ModuleAlive
  /\ periodic = "select"
  /\ ticks < MaxTicks
  /\ periodic' = "update"
  /\ ticks' = ticks + 1
  /\ UNCHANGED <<callVars, payloadVars, m, mpc, provRet, inflight, req,
                 served, updErr>>

\* The periodic update returned: its error is logged, the loop goes on.
periodic_Updated ==
  /\ ModuleAlive
  /\ periodic = "update"
  /\ \E o \in UpdateOutcomes : updErr' = ipv64Update(o)
  /\ periodic' = "select"
  /\ UNCHANGED <<callVars, payloadVars, m, mpc, provRet, ticks, inflight,
                 req, served>>

\* case <-m.stopPeriodic: the periodic goroutine returns.
periodic_Stop ==
  /\ ModuleAlive
  /\ periodic = "select"
  /\ m.stopPeriodic = "closed"
  /\ periodic' = "exited"
  /\ UNCHANGED <<callVars, payloadVars, m, mpc, provRet, ticks, inflight,
                 req, served, updErr>>

\* Faulty variant of AcmeIPv64Module_Cleanup: the field is set to nil after
\* the close.
AcmeIPv64Module_Cleanup_reset ==
  /\ mpc \in {"provisioned", "cleaned"}
  /\ mpc' = "cleaned"
  /\ m' = [m EXCEPT !.stopPeriodic = "nil"]
  /\ UNCHANGED <<callVars, payloadVars, provRet, periodic, ticks, inflight,
                 req, served, updErr>>

\* Cleanup: close(m.stopPeriodic) unless it is nil; closing a closed channel
\* panics.
AcmeIPv64Module_Cleanup ==
  /\ mpc \in {"provisioned", "cleaned"}
  /\ CASE m.stopPeriodic = "nil" -> mpc' = "cleaned" /\ m' = m
       [] m.stopPeriodic = "open" ->
            mpc' = "cleaned" /\ m' = [m EXCEPT !.stopPeriodic = "closed"]
       [] m.stopPeriodic = "closed" -> mpc' = "panic" /\ m' = m
  /\ UNCHANGED <<callVars, payloadVars, provRet, periodic, ticks, inflight,
                 req, served, updErr>>

ModuleInit ==
  /\ variant = "dns"
  /\ op = "append"
  /\ pc = "module"
  /\ CallIdle
  /\ PayloadIdle
  /\ m \in ModuleConfigs
  /\ mpc = "new"
  /\ provRet = NoRet
  /\ periodic = "none"
  /\ ticks = 0
  /\ inflight = 0
  /\ req = NoReq
  /\ served = 0
  /\ updErr = NoErr

ModuleNext ==
  \/ AcmeIPv64Module_Provision
  \/ AcmeIPv64Module_ProvisionUpdated
  \/ AcmeIPv64Module_ServeHTTP
  \/ ServeHTTP_Return
  \/ ipv64Update_Detached
  \/ periodic_Tick
  \/ periodic_Updated
  \/ periodic_Stop
  \/ AcmeIPv64Module_Cleanup

ModuleSpec == ModuleInit /\ [][ModuleNext]_vars

\* ============================== the provider and the module side by side
\* The lists the host may pass to SetResolvers.
ResolverInputs == {<<>>, <<"192.0.2.53">>}

\* The cleanup goroutine of DnsIPv64Provider.DeleteRecords exists.
CleanupPcs ==
  {"del_delay", "del_grace", "del_start", "dns_loop", "dns_wait429",
   "dns_backoff", "dns_ret"}
CleanupRunning == UsesCtx2 /\ pc \in CleanupPcs

\* A goroutine of AcmeIPv64Module that calls ipv64Update exists.
UpdateRunning == periodic \in {"select", "update"} \/ inflight > 0

\* SetResolvers, called by the host while the cleanup goroutine runs: a
\* non-empty list replaces p.Resolver by a copy.
DnsIPv64Provider_SetResolvers ==
  /\ CleanupRunning
  /\ \E resolvers \in ResolverInputs :
       /\ Resolver # resolvers
       /\ Resolver' = IF Len(resolvers) > 0 THEN resolvers ELSE Resolver
  /\ Resolver' # Resolver
  /\ UNCHANGED <<payloadVars, acmeVars, variant, op, Token, envToken,
                 MaxRetries, InitialBackoffMillis, DeleteDelaySeconds, recs,
                 pc, i, helperVars, body, histVars, created, ret, cancelled,
                 ctx2Done, waited>>

\* One DeleteRecords call of a DnsIPv64Provider for at most one record, or
\* one AcmeIPv64Module.
ShareInit ==
  \/ Init /\ variant = "dns" /\ op = "delete" /\ Len(recs) <= 1
  \/ ModuleInit

ShareNext ==
  \/ DnsIPv64Provider_Provision
  \/ DnsIPv64Provider_DeleteRecords
  \/ DnsIPv64Provider_SetResolvers
  \/ cleanup_DelayTimer
  \/ cleanup_DelayCancelled
  \/ cleanup_GraceSlept
  \/ cleanup_Start
  \/ cleanup_DeleteResult
  \/ doWithRetry_Do
  \/ doWithRetry_LoopExit
  \/ doWithRetry_After429
  \/ doWithRetry_Done429
  \/ doWithRetry_AfterBackoff
  \/ doWithRetry_DoneBackoff
  \/ ctx_Cancel
  \/ ctx2_Timeout
  \/ ModuleNext

ShareSpec == ShareInit /\ [][ShareNext]_vars


\* =============================================================== claims
Is2xx(s) == s >= 200 /\ s <= 299
IsOtherStatus(s) == ~Is2xx(s) /\ s # 429 /\ s < 500
Answered == resp # NoResp /\ resp.kind = "resp"

\* C1 (as stated): doWithRetry with maxRetries = N >= 0 and every attempt
\* answered with HTTP 500 sends exactly N+1 requests and then returns a
\* non-nil error and no response.
C1_AsStated ==
  (variant = "dns" /\ pc = "dns_ret" /\ all500)
    => (sent = MaxRetries + 1 /\ hErr # NoErr /\ hResp = NoResp)

\* C1 (amended): doWithRetry with maxRetries = N >= 0 and every attempt
\* answered with HTTP 500 returns a non-nil error and no response; unless a
\* backoff wait was cut short by the context (the error is then ctx.Err()),
\* exactly N+1 requests were sent and the error is the last server error.
C1_All500 ==
  (variant = "dns" /\ pc = "dns_ret" /\ all500)
    => /\ hErr # NoErr
       /\ hResp = NoResp
       /\ hErr.kind # "ctx" =>
            /\ sent = MaxRetries + 1
            /\ hErr = ServerError(500, resp.body)

C1_Witness ==
  /\ variant = "dns" /\ pc = "dns_ret" /\ all500
  /\ MaxRetries = 2 /\ sent = 3
  /\ hErr.kind = "server"

\* C2 (as stated): Provider.doWithRetryForm with MaxRetries = N >= 1 and
\* every attempt answered with HTTP 500 sends exactly N+1 requests before it
\* returns its terminal error.
C2_AsStated ==
  (variant = "form" /\ pc = "form_ret" /\ MaxRetries >= 1 /\ all500)
    => (sent = MaxRetries + 1 /\ hErr # NoErr)

\* C3: in both retry helpers a 2xx answer to the first attempt makes the
\* helper return success with exactly one request sent and no wait started;
\* nothing but the helper's return and the end of the call follows.
C3_FirstAttempt2xx ==
  (attempt = 0 /\ Answered /\ Is2xx(resp.status))
    => /\ pc \in {"dns_ret", "form_ret", "done"}
       /\ hErr = NoErr
       /\ variant = "dns" => hResp = resp
       /\ sent = 1
       /\ sleeps = 0

C3_Witness ==
  /\ variant = "form" /\ pc = "form_ret"
  /\ attempt = 0 /\ Answered /\ resp.status = 204
  /\ sent = 1 /\ hErr = NoErr

\* C4 (as stated): in both variants AppendRecords treats every 2xx status as
\* success: a record whose create was finally answered with a 2xx status is
\* in the returned applied set and no error is returned for it.
C4_AsStated ==
  (op = "append" /\ pc = "done" /\ Answered /\ Is2xx(resp.status))
    => /\ ret.err = NoErr
       /\ \E k \in 1..Len(ret.recs) : ret.recs[k] = recs[i]

\* C5: in AppendRecords of both variants, an answer that is neither 2xx, 429
\* nor 5xx is the last request for its record (requests = attempts made, no
\* wait after it), and the call returns an error carrying that status and
\* that response body, with the records created before it.
C5_OtherStatusTerminal ==
  (op = "append" /\ Answered /\ IsOtherStatus(resp.status))
    => /\ pc \in {"dns_ret", "form_ret", "done"}
       /\ sent = attempt + 1
       /\ sleeps = attempt
       /\ pc = "done" =>
            /\ ret.err = ApiError(resp.status, resp.body)
            /\ ret.recs = created
            /\ Len(created) = i - 1

C5_Witness ==
  /\ op = "append" /\ pc = "done" /\ variant = "dns"
  /\ Answered /\ resp.status = 400 /\ resp.body = "domain not found"
  /\ sent = 1 /\ sleeps = 0
  /\ ret.err = ApiError(400, "domain not found")

\* Seconds named by a Retry-After header of decimal digits; -1 otherwise.
RetryAfterSeconds(ra) ==
  CASE ra = <<"2">> -> 2
    [] ra = <<"1", "0">> -> 10
    [] OTHER -> -1

\* C6: in doWithRetry a 429 answer always starts a wait and never returns:
\* the wait is s seconds when Retry-After names s seconds, whatever the
\* backoff, and the current backoff when the header is absent; when the wait
\* ends by its timer the backoff is doubled and the loop goes on to its next
\* attempt if one remains; only ctx.Done() ends the wait otherwise.
C6_RateLimited ==
  [][/\ (pc = "dns_loop" /\ sent' = sent + 1 /\ resp'.kind = "resp"
           /\ resp'.status = 429)
          => /\ pc' = "dns_wait429"
             /\ RetryAfterSeconds(resp'.ra) >= 0
                  => sleep' = 1000 * RetryAfterSeconds(resp'.ra)
             /\ resp'.ra = <<>> => sleep' = backoff
     /\ (pc = "dns_wait429" /\ pc' # pc)
          => \/ /\ pc' = "dns_loop"
                /\ backoff' = 2 * backoff
                /\ attempt' = attempt + 1
                /\ sent' = sent
                /\ attempt < MaxRetries => doWithRetryLoopCond(attempt', MaxRetries')
             \/ /\ CtxDone
                /\ pc' = "dns_ret"
                /\ hErr' = CtxErr
    ]_vars

C6_Witness ==
  /\ pc = "dns_loop" /\ attempt = 1
  /\ Answered /\ resp.status = 429 /\ resp.ra = <<"2">>
  /\ InitialBackoffMillis = 250 /\ backoff = 500 /\ sleep = 2000

\* C7: when the context of doWithRetry becomes done while the helper is
\* parked in a wait (backoff or 429), the helper's next step returns
\* (nil, ctx.Err()) and no further request is sent.
C7_CancelledWait ==
  [][(pc \in DnsWaits /\ woken)
       => \/ pc' = pc /\ sent' = sent /\ woken'
          \/ /\ pc' = "dns_ret"
             /\ hResp' = NoResp
             /\ hErr' = CtxErr
             /\ sent' = sent
             /\ attempt' = attempt
    ]_vars

C7_Witness ==
  /\ pc = "dns_ret" /\ woken /\ hErr = CtxErr /\ hResp = NoResp
  /\ attempt < MaxRetries /\ sent = 1
  /\ Answered /\ resp.status = 503

\* C8 (as stated): doWithRetry never returns a nil response together with a
\* nil error, so its callers never use a missing response.
C8_AsStated ==
  /\ pc = "dns_ret" => ~(hResp = NoResp /\ hErr = NoErr)
  /\ pc # "panic"

IsPrefix(a, b) == Len(a) <= Len(b) /\ a = SubSeq(b, 1, Len(a))

\* What C9 says of a call that returned.
AppendReturnedAsClaimed ==
  /\ IsPrefix(ret.recs, recs)
  /\ ret.recs = created
  /\ tried \subseteq 1..(Len(created) + 1)
  /\ ret.err = NoErr => ret.recs = recs
  /\ (ret.err # NoErr /\ ret.err.kind # "config") =>
       /\ i = Len(created) + 1
       /\ tried = 1..i

\* C9 (as stated): AppendRecords processes the records in input order, stops
\* at the first record whose create fails without a request for any later
\* record, and returns the error with exactly the records created before it.
C9_AsStated ==
  op = "append" =>
    /\ pc # "panic"
    /\ pc = "done" => AppendReturnedAsClaimed

\* C10 (as stated): DeleteRecords returns a nil error and, whatever the
\* deletes of single records do, the retry helper is called for every record.
C10_AsStated ==
  (op = "delete" /\ (ret # NoRet => ret.err.kind # "config")) =>
    /\ pc # "panic"
    /\ ret # NoRet => ret.err = NoErr
    /\ pc = "done" => tried = 1..Len(recs)

\* C11: DnsIPv64Provider.DeleteRecords with a delete delay d > 0: the cleanup
\* task calls the retry helper (and so sends a delete request) only after
\* the delay timer fired or, the caller's context being done, after the
\* grace sleep; while neither has happened nothing was sent.
C11_DelayBeforeDelete ==
  (UsesCtx2 /\ ret # NoRet /\ DeleteDelaySeconds * 1000 > 0)
    => /\ waited = "none" =>
            (pc \in {"del_delay", "del_grace"} /\ tried = {} /\ sent = 0)
       /\ pc = "del_grace" => (cancelled /\ waited = "none")
       /\ waited = "grace" => cancelled
       /\ (tried # {} \/ sent > 0) => waited \in {"delay", "grace"}

C11_Witness ==
  /\ UsesCtx2 /\ DeleteDelaySeconds = 5
  /\ waited = "grace" /\ cancelled
  /\ sent = 1 /\ i = 1

\* C12 (as stated): once DnsIPv64Provider.DeleteRecords was called and the
\* caller's context is cancelled (before the call, during the delay or while
\* deletes run), the cleanup task still gets to a delete for every record of
\* the batch; and its requests and waits end on a context only through the
\* task's own context.
C12_AsStated ==
  /\ (UsesCtx2 /\ ret # NoRet /\ cancelled)
        ~> (pc = "done" /\ tried = 1..Len(recs))
  /\ [](UsesCtx2 /\ pc = "dns_ret" /\ hErr.kind = "ctx"
          => hErr = DeadlineExceeded /\ ctx2Done)

\* C13 (as stated): Provision of a DnsIPv64Provider whose DeleteDelaySeconds
\* is 0 leaves it 0, so the cleanup task does not wait.
C13_AsStated ==
  [][(variant = "dns" /\ pc = "new" /\ pc' = "ready" /\ DeleteDelaySeconds = 0)
       => DeleteDelaySeconds' * 1000 <= 0]_vars

\* C17: Provider with an empty token at the call: AppendRecords and
\* DeleteRecords return the configuration error and no records, the retry
\* helper is never entered and no request is sent, whatever the record list.
C17_EmptyToken ==
  (variant = "form" /\ Token = "" /\ pc \notin {"new", "ready"})
    => /\ pc = "done"
       /\ ret = Returned(<<>>, ConfigError)
       /\ sent = 0
       /\ sleeps = 0
       /\ tried = {}

C17_Witness ==
  /\ variant = "form" /\ op = "delete" /\ Token = "" /\ envToken = ""
  /\ pc = "done" /\ Len(recs) = 2
  /\ ret.err = ConfigError /\ sent = 0

\* C19 (as stated): when the caller's context is done during the backoff
\* sleep of doWithRetryForm, the helper's next step returns the cancellation
\* error and no further request is sent.
C19_AsStated ==
  [][(pc = "form_sleep" /\ cancelled)
       => \/ pc' = pc /\ sent' = sent
          \/ /\ pc' = "form_ret"
             /\ hErr' = Canceled
             /\ sent' = sent
    ]_vars

\* C20 (as stated): a retry helper waits only when another attempt is still
\* permitted after the wait.
C20_AsStated ==
  /\ pc \in DnsWaits => doWithRetryLoopCond(attempt + 1, MaxRetries)
  /\ pc = "form_sleep" => doWithRetryFormLoopCond(attempt + 1, MaxRetries)

\* C14: whenever the name of a record equals the domain put into the payload
\* (a trailing dot aside), the label put into the payload is "@": in create
\* and in delete, for DnsIPv64Provider and for Provider.
C14_ApexLabel ==
  (payload.kind = "form"
     /\ TrimSuffix(payload.fqdn, Dot) = TrimSuffix(payload.domain, Dot))
    => payload.praefix = At

C14_Witness ==
  /\ variant = "dns" /\ op = "delete"
  /\ payload.kind = "form"
  /\ name = At
  /\ payload.fqdn = Join(<<s_example64, s_de>>)
  /\ payload.domain = Join(<<s_example64, s_de>>)
  /\ payload.praefix = At

\* C15 (as stated): with p.Domain set, the managed domain Provider puts into
\* the payload is p.Domain without its trailing dot, for every record name
\* and every zone.
C15_AsStated ==
  (variant = "form" /\ Domain # <<>> /\ payload.kind = "form")
    => payload.domain = TrimSuffix(Domain, Dot)

ChallengeSubExample == Join(<<s_acme, s_sub, s_example64, s_de>>)
FooSubExample == Join(<<s_foo, s_sub, s_example64, s_de>>)
\* Provider built a payload for the record named fq, without override.
DerivedFor(fq) ==
  /\ variant = "form" /\ Domain = <<>>
  /\ payload.kind = "form"
  /\ TrimSuffix(payload.fqdn, Dot) = fq

\* C16 (as stated): without override the managed domain derived for
\* _acme-challenge.sub.example64.de is example64.de, and the label derived
\* for foo.sub.example64.de is foo.sub.
C16_AsStated ==
  /\ DerivedFor(ChallengeSubExample)
       => payload.domain = Join(<<s_example64, s_de>>)
  /\ DerivedFor(FooSubExample) => payload.praefix = Join(<<s_foo, s_sub>>)

\* C16 (amended): without override the managed domain derived for
\* _acme-challenge.sub.example64.de is sub.example64.de (label
\* _acme-challenge), and for foo.sub.example64.de the managed domain is
\* sub.example64.de and the label is foo.
C16_Scenario ==
  /\ DerivedFor(ChallengeSubExample)
       => /\ payload.domain = Join(<<s_sub, s_example64, s_de>>)
          /\ payload.praefix = s_acme
  /\ DerivedFor(FooSubExample)
       => /\ payload.domain = Join(<<s_sub, s_example64, s_de>>)
          /\ payload.praefix = s_foo

C16_Witness ==
  /\ DerivedFor(ChallengeSubExample)
  /\ op = "append"
  /\ zone = Join(<<s_example64, s_de>>)
  /\ payload.domain = Join(<<s_sub, s_example64, s_de>>)

\* C18: every ServeHTTP call hands the request to the next handler once and
\* returns what that handler returned, with or without an update goroutine
\* started and still running; an update goroutine is started exactly when
\* update_on_challenge is set and the path starts with
\* /.well-known/acme-challenge/; Provision of a valid configuration returns
\* nil whatever the start-up update returned.
C18_ServeHTTP ==
  /\ req.kind \in {"next", "returned"}
       => /\ req.nextCalls = 1
          /\ req.triggered
               <=> (m.UpdateOnChallenge /\ HasPrefix(req.path, ChallengePath))
  /\ req.kind = "returned" => req.ret = req.nextRet
  /\ inflight > 0 => m.UpdateOnChallenge
  /\ (provRet # NoRet /\ provRet.err # NoErr)
       => (m.Token = "" \/ m.Domain = "") /\ mpc = "invalid"
  /\ mpc \in {"start_update", "provisioned", "cleaned"}
       => (m.Token # "" /\ m.Domain # "")

C18_Witness ==
  /\ req.kind = "returned" /\ req.triggered /\ inflight = 2
  /\ req.ret # NoErr
  /\ m.UpdateOnStart /\ ticks = 0 /\ updErr # NoErr
  /\ provRet = Returned(<<>>, NoErr)

\* C21 (as stated): whenever a retry helper is between two attempts, and
\* whenever the call has returned, the body of the record's latest response
\* has been read to its end and closed.
C21_AsStated ==
  /\ pc \in {"dns_loop", "dns_wait429", "dns_backoff", "form_loop", "form_sleep"}
       => body \in {"none", "closed"}
  /\ pc = "done" => body \in {"none", "closed"}

\* The name deriveManagedZone works on: the fqdn without its trailing dot and
\* without a leading "_acme-challenge.".
WorkingName(fq) == TrimPrefix(TrimSuffix(fq, Dot), s_acme \o Dot)
\* The last three labels of a name of at least three labels look like
\* <user>.<service>64.<de|net>.
LastThreeMatch(labels) ==
  /\ Len(labels) >= 3
  /\ HasSuffix(labels[Len(labels) - 1], s_64)
  /\ labels[Len(labels)] \in {s_de, s_net}
\* Provider derived a managed zone by the heuristic: no override, and the
\* fqdn is not the zone.
HeuristicUsed ==
  /\ variant = "form" /\ Domain = <<>> /\ payload # NoPayload
  /\ TrimSuffix(payload.fqdn, Dot) # TrimSuffix(normalizeZone(zone), Dot)
\* The managed zone of the record: empty when no payload was built for it.
ManagedOf(pl) == IF pl.kind = "form" THEN pl.domain ELSE <<>>

\* C22 (as stated): without override and with fqdn different from the zone
\* the managed domain is the last three labels of the working name when
\* they match the "64" pattern, and the whole working name otherwise; it is
\* not empty when the fqdn is not empty.
C22_AsStated ==
  HeuristicUsed =>
    LET w == WorkingName(payload.fqdn)
        labels == Split(w)
    IN  /\ ManagedOf(payload) =
             IF LastThreeMatch(labels)
               THEN Join(SubSeq(labels, Len(labels) - 2, Len(labels)))
               ELSE w
        /\ payload.fqdn # <<>> => ManagedOf(payload) # <<>>

\* C22 (amended): without override and with fqdn different from the zone
\* the managed domain is the last three labels of the working name when
\* they match the "64" pattern, and the whole working name otherwise; it is
\* empty exactly when the working name is empty, and then AppendRecords
\* ends with an error and DeleteRecords skips the record.
C22_Heuristic ==
  HeuristicUsed =>
    LET w == WorkingName(payload.fqdn)
        labels == Split(w)
    IN  /\ ManagedOf(payload) =
             IF LastThreeMatch(labels)
               THEN Join(SubSeq(labels, Len(labels) - 2, Len(labels)))
               ELSE w
        /\ ManagedOf(payload) = <<>> <=> w = <<>>
        /\ w = <<>> => payload.kind = (IF op = "append" THEN "error" ELSE "skip")
        /\ w # <<>> => payload.kind = "form"

C22_Witness ==
  /\ HeuristicUsed
  /\ payload.kind = "form"
  /\ TrimSuffix(payload.fqdn, Dot) = Join(<<s_foo, s_sub, s_example64, s_net>>)
  /\ payload.domain = Join(<<s_sub, s_example64, s_net>>)

\* Provider built a payload for a name that starts with "_acme-challenge.".
ChallengePayload ==
  /\ variant = "form" /\ payload.kind = "form"
  /\ HasPrefix(TrimSuffix(payload.fqdn, Dot), s_acme \o Dot)

\* C23 (as stated): for a name that starts with "_acme-challenge." the label
\* of the payload is the label of the name without that prefix under the
\* managed domain.
C23_AsStated ==
  ChallengePayload =>
    LET w == WorkingName(payload.fqdn)
    IN  payload.praefix =
          IF w = payload.domain THEN At
          ELSE IF HasSuffix(w, Dot \o payload.domain)
            THEN TrimSuffix(w, Dot \o payload.domain)
          ELSE Split(w)[1]

\* C23 (amended): for a name that starts with "_acme-challenge." the prefix
\* is removed only to find the managed domain; the label of the payload is
\* taken from the whole name and begins with the label _acme-challenge.
\* Without override the managed domain is the end of the name without the
\* prefix, and label "." managed domain is the whole name.
C23_PrefixKept ==
  ChallengePayload =>
    /\ HasPrefix(payload.praefix \o Dot, s_acme \o Dot)
    /\ HeuristicUsed =>
         LET w == WorkingName(payload.fqdn)
         IN  /\ w = payload.domain \/ HasSuffix(w, Dot \o payload.domain)
             /\ TrimSuffix(payload.fqdn, Dot)
                  = payload.praefix \o Dot \o payload.domain

C23_Witness ==
  /\ ChallengePayload /\ HeuristicUsed
  /\ TrimSuffix(payload.fqdn, Dot) = Join(<<s_acme, s_foo, s_sub, s_example64, s_de>>)
  /\ payload.domain = Join(<<s_sub, s_example64, s_de>>)
  /\ payload.praefix = Join(<<s_acme, s_foo>>)

\* The heuristic was used and found no match.
NoMatch ==
  /\ HeuristicUsed /\ payload.kind = "form"
  /\ ~LastThreeMatch(Split(WorkingName(payload.fqdn)))

\* C24 (as stated): when the heuristic finds no match, the label of the
\* payload is the first label of the record's name.
C24_AsStated ==
  NoMatch => payload.praefix = Split(TrimSuffix(payload.fqdn, Dot))[1]

\* C24 (amended): when the heuristic finds no match for a name under a
\* non-empty zone, the managed domain is the whole name without the
\* challenge prefix, and the label is _acme-challenge for a name with that
\* prefix and "@" for any other name.
C24_NoMatch ==
  (NoMatch /\ zone # <<>>) =>
    /\ payload.domain = WorkingName(payload.fqdn)
    /\ payload.praefix =
         IF HasPrefix(TrimSuffix(payload.fqdn, Dot), s_acme \o Dot)
           THEN s_acme ELSE At

C24_Witness ==
  /\ NoMatch
  /\ name = s_foo
  /\ payload.fqdn = Join(<<s_foo, s_example, s_com>>) \o Dot
  /\ payload.domain = Join(<<s_foo, s_example, s_com>>)
  /\ payload.praefix = At

\* C27 (as stated): a record is in the list DeleteRecords returned only if
\* a delete request for it was made and answered with a success status.
C27_AsStated ==
  (op = "delete" /\ ret # NoRet) =>
    \A k \in 1..Len(ret.recs) :
      /\ ret.recs[k] \in tried
      /\ ret.recs[k] = i => (Answered /\ Is2xx(resp.status))

\* C26 (as stated): doWithRetry never sends a request whose body an earlier
\* attempt has already consumed, so every attempt carries the whole payload.
C26_AsStated ==
  [][(pc = "dns_loop" /\ sent' = sent + 1) => ~ReqBodyConsumed]_vars

\* The fields of the provider value p.
ProviderFields ==
  <<Token, Domain, MaxRetries, InitialBackoffMillis, DeleteDelaySeconds, Resolver>>

C28_AsStated ==
  [][/\ (mpc = "cleaned" /\ periodic = "select") => periodic' # "update"
     /\ mpc = "cleaned" => mpc' # "panic"]_vars

====
